---- MODULE Spec2Model ----
(***************************************************************************)
(* A model of ThreadlessWeb (threadlessweb.c): the select()-driven poll     *)
(* loop, the descriptor-indexed conversation table, the request framer of  *)
(* web_read and the response writer web_write.                             *)
(*                                                                         *)
(* Bytes are ASCII codes.  A pointer field holds NULL or the bytes it       *)
(* points to; the allocation behind it is counted in the variable heap.    *)
(***************************************************************************)
EXTENDS Integers, Sequences, FiniteSets, Bags, TLC

\* ------------------------------------------------------------------ bounds
\* Size of an fd_set and of the conversation table (1024 on Linux), scaled.
FD_SETSIZE == 3
\* Size of the read buffer (8096 in threadlessweb.c), scaled.
BUFSIZE == 12
\* The listening socket is reported readable only while hit < MaxHit.
MaxHit == 2
\* The most bytes that follow the method prefix of a request framed on its own.
MaxTail == 5

\* --------------------------------------------------------------- constants
RESPONSE_ERROR == 42
REQUEST_INVALID == -1
REQUEST_GET == 0
REQUEST_POST == 1
REQUEST_NUM == 2
EXIT_FAILURE == 1

\* A pointer is NULL or a one-element tuple holding what it points to.
NULL == <<>>
Ptr(x) == <<x>>
Deref(p) == p[1]

CR == 13
LF == 10
NUL == 0
STAR == 42

\* "GET " and "POST "
requests == << <<71, 69, 84, 32>>, <<80, 79, 83, 84, 32>> >>

\* "Okay\n"; RESPONSE_LENGTH is sizeof, so it counts the terminating NUL
RESPONSE_CONTENT == <<79, 107, 97, 121, 10>>
RESPONSE_LENGTH == Len(RESPONSE_CONTENT) + 1

\* The fixed 403 document is sent as one literal; only its identity matters.
FORBIDDEN_TEXT == "HTTP/1.1 403 Forbidden"

\* ------------------------------------------------------------ the framer
\* The bytes of a C string literal or buffer as write(fd, p, n) sends them:
\* the first n bytes, the terminating NUL included when n reaches it.
Bytes(content, length) ==
    [k \in 1..length |-> IF k <= Len(content) THEN content[k] ELSE NUL]

tolower(c) == IF c >= 65 /\ c <= 90 THEN c + 32 ELSE c

\* strncasecmp(buffer, prefix, size) == 0 where size = strlen(prefix): the
\* comparison stops at the first difference, so a NUL in buffer is a mismatch.
strncasecmp_eq(buffer, prefix, size) ==
    \A k \in 1..size :
        /\ k <= Len(buffer)
        /\ tolower(buffer[k]) = tolower(prefix[k])

\* buffer after read() stored ret bytes at its start (lines 112-119): a read
\* shorter than BUFSIZE is NUL-terminated, a full read has its first byte
\* zeroed; buffer[BUFSIZE] is never written and stays NUL (static storage).
Terminate(data) ==
    IF Len(data) > 0 /\ Len(data) < BUFSIZE
        THEN data \o <<NUL>>
        ELSE [data EXCEPT ![1] = NUL] \o <<NUL>>

\* The while loop of lines 121-137, entered at index i (0-based, as in C).
RECURSIVE FindBoundary(_, _, _, _, _)
FindBoundary(buffer, ret, boundary, retcount, i) ==
    IF ~((boundary = ret) /\ (i < ret)) THEN boundary
    ELSE IF buffer[i + 1] = CR \/ buffer[i + 1] = LF
        THEN FindBoundary(buffer, ret, boundary, retcount + 1, i + 1)
        ELSE IF retcount >= 4
            THEN FindBoundary(buffer, ret, i, retcount, i + 1)
            ELSE FindBoundary(buffer, ret, boundary, 0, i + 1)

\* Lines 156-161: CR and LF become '*' in the first ret bytes.
RemoveCRLF(buffer, ret) ==
    [k \in 1..Len(buffer) |->
        IF k <= ret /\ (buffer[k] = CR \/ buffer[k] = LF) THEN STAR ELSE buffer[k]]

\* Lines 164-173: the first entry of requests that prefixes buffer.
RECURSIVE Classify(_, _, _)
Classify(buffer, request, type) ==
    IF ~((request < REQUEST_NUM) /\ (type = REQUEST_INVALID)) THEN type
    ELSE IF strncasecmp_eq(buffer, requests[request + 1], Len(requests[request + 1]))
        THEN Classify(buffer, request + 1, request)
        ELSE Classify(buffer, request + 1, type)

\* What web_read computes from the ret > 0 bytes that read() returned.
Frame(data) ==
    LET ret == Len(data)
        buffer == Terminate(data)
        boundary == FindBoundary(buffer, ret, ret, 0, 0)
    IN  [ request_header |-> SubSeq(buffer, 1, boundary),
          request_header_size |-> boundary,
          request_body |-> SubSeq(buffer, boundary + 1, ret),
          request_body_size |-> ret - boundary,
          type |-> Classify(RemoveCRLF(buffer, ret), 0, REQUEST_INVALID) ]


\* ------------------------------------------------------------- the state
VARIABLES
    proc,       \* "init", "running", "finished" (after finish_server), "exited"
    exit_code,  \* the argument of exit(), -1 while the process lives
    handle,     \* the Webserve * held by the host: NULL or Ptr("webserve")
    webserve,   \* the fields of struct _Webserve
    heap,       \* live malloc/calloc blocks: a bag of <<hit, field>>
    open,       \* descriptors of the process that the server opened
    caller,     \* the poll helper the host is inside: "idle", "poll_thrice", "poll_forever"
    count,      \* the loop counter of poll_thrice
    returned,   \* what the last poll_once or poll_thrice call returned
    track,      \* per descriptor: callback invocations of the current conversation
    events,     \* what the last poll cycle did, in order
    progress,   \* the pending client of the current poll_thrice call
    request,    \* the bytes one read() of web_read returned, taken alone
    framed      \* NULL, or what web_read made of request

vars == <<proc, exit_code, handle, webserve, heap, open, caller, count,
          returned, track, events, progress, request, framed>>

\* The two variables that follow web_read on its own.
framer == <<request, framed>>

Descriptors == 0..(FD_SETSIZE - 1)

default_conv_callback_ptr == Ptr("default_conv_callback")
user_callback_ptr == Ptr("user_callback")

\* The part of the state the library functions work on.
World ==
    [ proc |-> proc, exit_code |-> exit_code, handle |-> handle,
      webserve |-> webserve, heap |-> heap, open |-> open,
      track |-> track, events |-> events ]

Install(w) ==
    /\ proc' = w.proc
    /\ exit_code' = w.exit_code
    /\ handle' = w.handle
    /\ webserve' = w.webserve
    /\ heap' = w.heap
    /\ open' = w.open
    /\ track' = w.track
    /\ events' = w.events

Log(w, e) == [w EXCEPT !.events = Append(@, e)]

\* malloc/calloc of block b, and free of the blocks in S.
Malloc(h, b) == h (+) SetToBag({b})
Free(h, S) == h (-) SetToBag(S)

\* exit(code): the process ends where it stands.
Exit(w, code) == [w EXCEPT !.proc = "exited", !.exit_code = code]

NoTrack == [invoked |-> 0, conv_result |-> "none", defaults |-> 0]

\* ------------------------------------------------- the conversation table
\* The blocks a WebserveConv owns, itself included.
Owned(c) ==
    {<<c.hit, "conversation">>}
        \cup (IF c.request_header # NULL THEN {<<c.hit, "request_header">>} ELSE {})
        \cup (IF c.request_body # NULL THEN {<<c.hit, "request_body">>} ELSE {})
        \cup (IF c.response # NULL THEN {<<c.hit, "response">>} ELSE {})

\* A fresh WebserveConv whose line 411 is left out: hit stays 0 from calloc.
NewConv_Unnumbered(hit) ==
    [ hit |-> 0, type |-> RESPONSE_ERROR,
      request_header |-> NULL, request_header_size |-> 0,
      request_body |-> NULL, request_body_size |-> 0,
      response_code |-> 0, response |-> NULL, response_size |-> 0 ]

\* calloc(sizeof(WebserveConv), 1) followed by lines 411-412
NewConv(hit) ==
    [ hit |-> hit, type |-> RESPONSE_ERROR,
      request_header |-> NULL, request_header_size |-> 0,
      request_body |-> NULL, request_body_size |-> 0,
      response_code |-> 0, response |-> NULL, response_size |-> 0 ]

\* conversation_new without lines 395-407: a lingering record is overwritten.
conversation_new_NoFree(w, fd) ==
    IF (fd >= 0) /\ (fd < FD_SETSIZE) /\ (w.handle # NULL)
    THEN LET fresh == NewConv(w.webserve.hit)
         IN  [w EXCEPT !.heap = Malloc(@, <<fresh.hit, "conversation">>),
                       !.webserve.conversation[fd] = Ptr(fresh)]
    ELSE w

conversation_new(w, fd) ==
    IF (fd >= 0) /\ (fd < FD_SETSIZE) /\ (w.handle # NULL)
    THEN LET old == w.webserve.conversation[fd]
             lingering == IF old # NULL THEN Owned(Deref(old)) ELSE {}
             fresh == NewConv(w.webserve.hit)
         IN  [w EXCEPT !.heap = Malloc(Free(@, lingering), <<fresh.hit, "conversation">>),
                       !.webserve.conversation[fd] = Ptr(fresh)]
    ELSE w

conversation_clear(w, fd) ==
    IF (fd > 0) /\ (fd < FD_SETSIZE) /\ (w.handle # NULL)
    THEN IF w.webserve.conversation[fd] # NULL
         THEN [w EXCEPT !.heap = Free(@, Owned(Deref(w.webserve.conversation[fd]))),
                        !.webserve.conversation[fd] = NULL]
         ELSE w
    ELSE w

\* ---------------------------------------------------------- the callbacks
\* default_conv_callback on the conversation of descriptor fd; returns true.
default_conv_callback(w, fd) ==
    LET c == Deref(w.webserve.conversation[fd])
    IN  [w EXCEPT !.heap = Malloc(@, <<c.hit, "response">>),
                  !.webserve.conversation[fd] =
                      Ptr([c EXCEPT !.response = Ptr(Bytes(RESPONSE_CONTENT, RESPONSE_LENGTH)),
                                    !.response_size = RESPONSE_LENGTH])]

\* "<html><body>Hello</body></html>" shortened to "Hi": the README's callback
USER_RESPONSE == <<72, 105>>

\* A host callback either fills the response as the README shows or leaves
\* it alone, and returns true or false.
CallbackBehaviours == [fill : BOOLEAN, result : BOOLEAN]

user_callback(w, fd, b) ==
    LET c == Deref(w.webserve.conversation[fd])
    IN  IF b.fill
        THEN [w EXCEPT !.heap = Malloc(@, <<c.hit, "response">>),
                       !.webserve.conversation[fd] =
                           Ptr([c EXCEPT !.response = Ptr(USER_RESPONSE),
                                         !.response_size = Len(USER_RESPONSE)])]
        ELSE w

\* Line 373: (conversation_callback == NULL) || (conv_result = false).  The
\* second operand is an assignment; its value is false.
UseDefault(conversation_callback, conv_result) ==
    (conversation_callback = NULL) \/ FALSE

\* ------------------------------------------------------ reading, writing
\* forbidden(): one write of the fixed 403 document.
forbidden(w, socket_fd) ==
    Log(w, <<"forbidden", socket_fd, FORBIDDEN_TEXT>>)

\* What read(fd, buffer, BUFSIZE) can give: -1, 0 or 1..BUFSIZE bytes.
ReadResult(ret, data) == [ret |-> ret, data |-> data]

\* Records the request in the conversation of fd (lines 139-154, 175-177).
FillConversation(w, fd, f) ==
    LET conversation == w.webserve.conversation[fd]
    IN  IF conversation # NULL
        THEN LET c == Deref(conversation)
             IN  [w EXCEPT
                     !.heap = Malloc(Malloc(@, <<c.hit, "request_header">>),
                                     <<c.hit, "request_body">>),
                     !.webserve.conversation[fd] = Ptr(
                         [c EXCEPT
                             !.request_header = Ptr(f.request_header),
                             !.request_header_size = f.request_header_size,
                             !.request_body = Ptr(f.request_body),
                             !.request_body_size = f.request_body_size,
                             !.type = f.type])]
        ELSE w

\* web_read with the exit(3) of line 183 left out: it returns after forbidden().
web_read_NoExit(w, fd, rd) ==
    IF rd.ret = 0 \/ rd.ret = -1
    THEN Exit(forbidden(w, fd), 3)
    ELSE LET f == Frame(rd.data)
             w1 == Log(FillConversation(w, fd, f), <<"read", fd>>)
         IN  IF (f.type <= REQUEST_INVALID) \/ (f.type >= REQUEST_NUM)
             THEN forbidden(w1, fd)
             ELSE w1

\* web_read(fd, webserve->conversation[fd]) given the result of its read().
\* malloc is taken to succeed.
web_read(w, fd, rd) ==
    IF rd.ret = 0 \/ rd.ret = -1
    THEN Exit(forbidden(w, fd), 3)
    ELSE LET f == Frame(rd.data)
             w1 == Log(FillConversation(w, fd, f), <<"read", fd>>)
         IN  IF (f.type <= REQUEST_INVALID) \/ (f.type >= REQUEST_NUM)
             THEN Exit(forbidden(w1, fd), 3)
             ELSE w1

\* web_write(fd, webserve->conversation[fd]): header and content are written,
\* then the descriptor is closed.
web_write(w, fd) ==
    LET conversation == w.webserve.conversation[fd]
        own == (conversation # NULL) /\ (Deref(conversation).response # NULL)
        content == IF own THEN Deref(Deref(conversation).response) ELSE RESPONSE_CONTENT
        length == IF own THEN Deref(conversation).response_size ELSE RESPONSE_LENGTH
    IN  Log([w EXCEPT !.open = @ \ {fd}],
            <<"write", fd, Bytes(content, length), w.track[fd]>>)

\* ------------------------------------------------------- one poll cycle
\* Lines 352-363: accept() gives a descriptor the process does not have open
\* (the host holds the others), or fails.
AcceptResults(w) == {-1} \cup (Descriptors \ w.open)

\* ServiceAccept with the listening descriptor dropped from the read set.
ServiceAccept_ClearsListen(w, fd) ==
    IF fd < 0
    THEN Exit(Log(w, <<"accept", fd>>), EXIT_FAILURE)
    ELSE LET w1 == [w EXCEPT !.open = @ \cup {fd},
                             !.webserve.hit = @ + 1,
                             !.webserve.active_read_fd_set =
                                 (@ \ {w.webserve.listenfd}) \cup {fd},
                             !.track[fd] = NoTrack]
         IN  Log(conversation_new(w1, fd), <<"accept", fd>>)

ServiceAccept(w, fd) ==
    IF fd < 0
    THEN Exit(Log(w, <<"accept", fd>>), EXIT_FAILURE)
    ELSE LET w1 == [w EXCEPT !.open = @ \cup {fd},
                             !.webserve.hit = @ + 1,
                             !.webserve.active_read_fd_set = @ \cup {fd},
                             !.track[fd] = NoTrack]
         IN  Log(conversation_new(w1, fd), <<"accept", fd>>)

\* Lines 369-371: the registered callback runs on the conversation.
InvokeCallback(w, i, b) ==
    LET cb == w.webserve.conversation_callback
        w1 == IF cb = default_conv_callback_ptr THEN default_conv_callback(w, i)
              ELSE user_callback(w, i, b)
        conv_result == IF cb = default_conv_callback_ptr THEN TRUE ELSE b.result
    IN  Log([w1 EXCEPT !.track[i].invoked = @ + 1,
                       !.track[i].conv_result = IF conv_result THEN "true" ELSE "false"],
            <<"callback", i>>)

\* ServiceRead without the FD_CLR of line 367.
ServiceRead_KeepsReadSet(w, i, b) ==
    LET cb == w.webserve.conversation_callback
        w2 == IF cb # NULL THEN InvokeCallback(w, i, b) ELSE w
        w3 == IF UseDefault(cb, w2.track[i].conv_result = "true")
              THEN [default_conv_callback(w2, i) EXCEPT !.track[i].defaults = @ + 1]
              ELSE w2
    IN  Log([w3 EXCEPT !.webserve.active_write_fd_set = @ \cup {i}],
            <<"FD_SET_write", i>>)

\* Lines 366-377 after web_read returned.
ServiceRead(w, i, b) ==
    LET w1 == [w EXCEPT !.webserve.active_read_fd_set = @ \ {i}]
        cb == w1.webserve.conversation_callback
        w2 == IF cb # NULL THEN InvokeCallback(w1, i, b) ELSE w1
        w3 == IF UseDefault(cb, w2.track[i].conv_result = "true")
              THEN [default_conv_callback(w2, i) EXCEPT !.track[i].defaults = @ + 1]
              ELSE w2
    IN  Log([w3 EXCEPT !.webserve.active_write_fd_set = @ \cup {i}],
            <<"FD_SET_write", i>>)

\* Lines 381-387
ServiceWrite(w, i) ==
    LET w1 == web_write(w, i)
        w2 == [w1 EXCEPT !.webserve.active_write_fd_set = @ \ {i},
                         !.track[i] = NoTrack]
    IN  conversation_clear(w2, i)

\* The requests a client sends in this model.
\* "GET /\r\n\r\nab"
ReqGet == <<71, 69, 84, 32, 47, 13, 10, 13, 10, 97, 98>>
\* "DELETE /"
ReqDelete == <<68, 69, 76, 69, 84, 69, 32, 47>>

ReadResults ==
    {ReadResult(-1, <<>>), ReadResult(0, <<>>)}
        \cup {ReadResult(Len(d), d) : d \in {ReqGet, ReqDelete}}

\* The behaviours the registered callback can show.
Behaviours(w) ==
    IF w.webserve.conversation_callback = user_callback_ptr
    THEN CallbackBehaviours
    ELSE {[fill |-> TRUE, result |-> TRUE]}

\* ServiceDescriptor testing the server's awaiting-write set (line 381 with
\* webserve->active_write_fd_set) instead of the copy select() filled in.
ServiceDescriptor_LiveWriteSet(w, i, read_fd_set, write_fd_set) ==
    LET afterRead ==
            IF i \in read_fd_set
            THEN IF i = w.webserve.listenfd
                 THEN {ServiceAccept(w, fd) : fd \in AcceptResults(w)}
                 ELSE UNION {LET w1 == web_read(w, i, rd)
                             IN  IF w1.proc # "running" THEN {w1}
                                 ELSE {ServiceRead(w1, i, b) : b \in Behaviours(w1)}
                             : rd \in ReadResults}
            ELSE {w}
    IN  {IF x.proc = "running" /\ i \in x.webserve.active_write_fd_set
         THEN ServiceWrite(x, i) ELSE x
         : x \in afterRead}

\* The body of the for loop at index i: every outcome it can have.
ServiceDescriptor(w, i, read_fd_set, write_fd_set) ==
    LET afterRead ==
            IF i \in read_fd_set
            THEN IF i = w.webserve.listenfd
                 THEN {ServiceAccept(w, fd) : fd \in AcceptResults(w)}
                 ELSE UNION {LET w1 == web_read(w, i, rd)
                             IN  IF w1.proc # "running" THEN {w1}
                                 ELSE {ServiceRead(w1, i, b) : b \in Behaviours(w1)}
                             : rd \in ReadResults}
            ELSE {w}
    IN  {IF x.proc = "running" /\ i \in write_fd_set THEN ServiceWrite(x, i) ELSE x
         : x \in afterRead}

\* The for loop of lines 348-388 from index i on.
RECURSIVE Scan(_, _, _, _)
Scan(w, i, read_fd_set, write_fd_set) ==
    IF ~((i < FD_SETSIZE) /\ (w.webserve.quit # TRUE)) \/ w.proc # "running"
    THEN {w}
    ELSE UNION {Scan(x, i + 1, read_fd_set, write_fd_set)
                : x \in ServiceDescriptor(w, i, read_fd_set, write_fd_set)}

\* What select() can report: failure, or any subset of the descriptors it was
\* given (none when it times out).
SelectResults(w) ==
    LET readable == IF w.webserve.hit < MaxHit
                    THEN w.webserve.active_read_fd_set
                    ELSE w.webserve.active_read_fd_set \ {w.webserve.listenfd}
    IN  {[ok |-> FALSE, read_fd_set |-> {}, write_fd_set |-> {}]}
            \cup {[ok |-> TRUE, read_fd_set |-> r, write_fd_set |-> x]
                  : r \in SUBSET readable,
                    x \in SUBSET w.webserve.active_write_fd_set}

\* poll_once without line 344: a failed select() is only logged.
poll_once_IgnoresSelectError(w, sel) ==
    Scan(Log(w, <<"select", sel.ok, sel.read_fd_set, sel.write_fd_set>>),
         0, sel.read_fd_set, sel.write_fd_set)

\* poll_once(webserve): every world it can return in; it returns quit.
poll_once(w, sel) ==
    LET w1 == Log(w, <<"select", sel.ok, sel.read_fd_set, sel.write_fd_set>>)
        w2 == IF ~sel.ok THEN [w1 EXCEPT !.webserve.quit = TRUE] ELSE w1
    IN  Scan(w2, 0, sel.read_fd_set, sel.write_fd_set)

\* ------------------------------------------------------ start and finish
\* check_connect(listenfd): calloc and initialise the server state.
check_connect(w, listenfd) ==
    [w EXCEPT
        !.handle = Ptr("webserve"),
        !.heap = Malloc(@, <<0, "webserve">>),
        !.webserve = [ listenfd |-> listenfd,
                       hit |-> 0,
                       active_read_fd_set |-> {listenfd},
                       active_write_fd_set |-> {},
                       timeout_usec |-> 1000000,
                       conversation_callback |-> default_conv_callback_ptr,
                       conversation |-> [fd \in Descriptors |-> NULL],
                       quit |-> FALSE ]]

\* start_server(port) given what socket(), bind() and listen() return.
start_server(w, port, sock, bound, listening) ==
    IF sock < 0 THEN Exit(w, 3)
    ELSE LET w1 == [w EXCEPT !.open = @ \cup {sock}]
         IN  IF port < 0 \/ port > 60000 THEN Exit(w1, 3)
             ELSE IF bound < 0 THEN Exit(w1, 3)
             ELSE IF listening < 0 THEN Exit(w1, 3)
             ELSE [check_connect(w1, sock) EXCEPT !.proc = "running"]

\* finish_server that also closes every descriptor and frees every block.
finish_server_ReleasesAll(w) ==
    [w EXCEPT !.webserve.quit = TRUE,
              !.open = {},
              !.heap = EmptyBag,
              !.proc = "finished"]

finish_server(w) ==
    [w EXCEPT !.webserve.quit = TRUE,
              !.open = @ \ {w.webserve.listenfd},
              !.heap = Free(@, {<<0, "webserve">>}),
              !.proc = "finished"]

\* set_timeout_usec that also empties the awaiting-write set.
set_timeout_usec_DropsWrites(w, usec) ==
    IF w.handle # NULL
    THEN [w EXCEPT !.webserve.timeout_usec = usec,
                   !.webserve.active_write_fd_set = {}]
    ELSE w

set_timeout_usec(w, usec) ==
    IF w.handle # NULL THEN [w EXCEPT !.webserve.timeout_usec = usec] ELSE w

set_conv_callback(w, conversation_callback) ==
    IF w.handle # NULL
    THEN IF conversation_callback # NULL
         THEN [w EXCEPT !.webserve.conversation_callback = conversation_callback]
         ELSE [w EXCEPT !.webserve.conversation_callback = default_conv_callback_ptr]
    ELSE w

\* --------------------------------------------------------- the behaviours
\* The ports the host passes to start_server.
Ports == {-1, 0, 80, 60000, 60001}
\* The timeouts the host sets.
Timeouts == {1000000, 250000}

\* Before start_server: no server state, nothing allocated.
NotStarted ==
    /\ proc = "init"
    /\ exit_code = -1
    /\ handle = NULL
    /\ webserve = [ listenfd |-> -1, hit |-> 0,
                    active_read_fd_set |-> {}, active_write_fd_set |-> {},
                    timeout_usec |-> 0, conversation_callback |-> NULL,
                    conversation |-> [fd \in Descriptors |-> NULL],
                    quit |-> FALSE ]
    /\ heap = EmptyBag
    /\ open = {}
    /\ caller = "idle"
    /\ count = 0
    /\ returned = NULL
    /\ track = [fd \in Descriptors |-> NoTrack]
    /\ events = <<>>
    /\ progress = <<"off">>

Init ==
    /\ NotStarted
    /\ request = <<>>
    /\ framed = NULL

\* A value the call returned, or NULL when exit() ended the process in it.
Returns(w, value) == IF w.proc = "exited" THEN NULL ELSE Ptr(value)

\* The host calls start_server(port); the handle it gets back is handle.
StartServerWith(port) ==
    /\ proc = "init"
    /\ \E sock \in {-1} \cup Descriptors, bound \in {0, -1}, listening \in {0, -1} :
          Install(start_server(World, port, sock, bound, listening))
    /\ UNCHANGED <<caller, count, returned, progress, framer>>

StartServer == \E port \in Ports : StartServerWith(port)

\* One execution of poll_once from the world w, events emptied first.
Cycle(w) ==
    LET fresh == [w EXCEPT !.events = <<>>]
    IN  UNION {poll_once(fresh, sel) : sel \in SelectResults(fresh)}

\* The host calls poll_once itself.
PollOnce ==
    /\ proc = "running"
    /\ caller = "idle"
    /\ \E w \in Cycle(World) :
          /\ Install(w)
          /\ returned' = Returns(w, w.webserve.quit)
    /\ UNCHANGED <<caller, count, progress, framer>>

\* progress follows one client through a poll_thrice call that began with no
\* connection in flight: <<"ready", n, fd>> says that in each of the n cycles
\* so far select() succeeded and never left the client's descriptor out when
\* it was asked about it (the listening socket in the first cycle, the
\* accepted descriptor fd afterwards).  Otherwise <<"off">>.
Accepted(log) ==
    IF \E k \in 1..Len(log) : log[k][1] = "accept" /\ log[k][2] >= 0
    THEN (log[CHOOSE k \in 1..Len(log) : log[k][1] = "accept" /\ log[k][2] >= 0])[2]
    ELSE -1

Advance(p, listenfd, asked_read, asked_write, log) ==
    LET sel == log[1]
        read_fd_set == sel[3]
        write_fd_set == sel[4]
    IN  IF p[1] # "ready" \/ ~sel[2] THEN <<"off">>
        ELSE IF p[2] = 0
            THEN IF listenfd \in read_fd_set
                 THEN <<"ready", 1, Accepted(log)>> ELSE <<"off">>
        ELSE IF p[2] = 1
            THEN IF p[3] \in asked_read => p[3] \in read_fd_set
                 THEN <<"ready", 2, p[3]>> ELSE <<"off">>
        ELSE IF p[3] \in asked_write => p[3] \in write_fd_set
                 THEN <<"ready", 3, p[3]>> ELSE <<"off">>

\* The condition of the for loop of poll_thrice (line 320).
ThriceContinue_Twice(n, quit) == (n < 2) /\ (quit # TRUE)

\* The condition of line 320 without its test of the termination flag.
ThriceContinue_IgnoresQuit(n, quit) == n < 3

ThriceContinue(n, quit) == (n < 3) /\ (quit # TRUE)

\* poll_thrice: entry (count = 0), one pass of the for loop, return.  The
\* passes are separate steps because select() blocks in each of them and what
\* it reports changes in between; the host does nothing else meanwhile.
PollThrice ==
    /\ proc = "running"
    /\ caller = "idle"
    /\ caller' = "poll_thrice"
    /\ count' = 0
    /\ progress' = IF /\ webserve.active_read_fd_set = {webserve.listenfd}
                      /\ webserve.active_write_fd_set = {}
                   THEN <<"ready", 0, -1>> ELSE <<"off">>
    /\ UNCHANGED <<proc, exit_code, handle, webserve, heap, open, returned, track,
                   events, framer>>

PollThriceLoop ==
    /\ proc = "running"
    /\ caller = "poll_thrice"
    /\ ThriceContinue(count, webserve.quit)
    /\ \E w \in Cycle(World) :
          /\ Install([w EXCEPT !.webserve.quit = @ \/ w.webserve.quit])
          /\ progress' = Advance(progress, webserve.listenfd,
                                  webserve.active_read_fd_set,
                                  webserve.active_write_fd_set, w.events)
    /\ count' = count + 1
    /\ UNCHANGED <<caller, returned, framer>>

PollThriceReturn ==
    /\ proc = "running"
    /\ caller = "poll_thrice"
    /\ ~ThriceContinue(count, webserve.quit)
    /\ returned' = Ptr(webserve.quit)
    /\ caller' = "idle"
    /\ count' = 0
    /\ progress' = <<"off">>
    /\ UNCHANGED <<proc, exit_code, handle, webserve, heap, open, track, events,
                   framer>>

\* A while loop of poll_forever that is never entered.
ForeverContinue_Never(quit) == FALSE

\* The condition of the while loop of poll_forever (line 313).
ForeverContinue(quit) == quit # TRUE

\* poll_forever: entry, one pass of the while loop, return.
PollForever ==
    /\ proc = "running"
    /\ caller = "idle"
    /\ caller' = "poll_forever"
    /\ UNCHANGED <<proc, exit_code, handle, webserve, heap, open, count,
                   returned, track, events, progress, framer>>

PollForeverLoop ==
    /\ proc = "running"
    /\ caller = "poll_forever"
    /\ ForeverContinue(webserve.quit)
    /\ \E w \in Cycle(World) :
          Install([w EXCEPT !.webserve.quit = @ \/ w.webserve.quit])
    /\ UNCHANGED <<caller, count, returned, progress, framer>>

PollForeverReturn ==
    /\ proc = "running"
    /\ caller = "poll_forever"
    /\ ~ForeverContinue(webserve.quit)
    /\ caller' = "idle"
    /\ UNCHANGED <<proc, exit_code, handle, webserve, heap, open, count,
                   returned, track, events, progress, framer>>

SetTimeoutUsec ==
    /\ proc = "running"
    /\ caller = "idle"
    /\ \E usec \in Timeouts :
          Install(set_timeout_usec(World, usec))
    /\ UNCHANGED <<caller, count, returned, progress, framer>>

SetConvCallback ==
    /\ proc = "running"
    /\ caller = "idle"
    /\ \E conversation_callback \in {NULL, user_callback_ptr} :
          Install(set_conv_callback(World, conversation_callback))
    /\ UNCHANGED <<caller, count, returned, progress, framer>>

FinishServer ==
    /\ proc = "running"
    /\ caller = "idle"
    /\ Install(finish_server(World))
    /\ UNCHANGED <<caller, count, returned, progress, framer>>

Next ==
    \/ StartServer
    \/ PollOnce
    \/ PollThrice
    \/ PollThriceLoop
    \/ PollThriceReturn
    \/ PollForever
    \/ PollForeverLoop
    \/ PollForeverReturn
    \/ SetTimeoutUsec
    \/ SetConvCallback
    \/ FinishServer

Spec == Init /\ [][Next]_vars

\* The host's thread keeps running: poll_forever, standing at a while
\* condition that is false, leaves the loop and returns.
LiveSpec == Spec /\ WF_vars(PollForeverReturn)

\* ------------------------------------------------- web_read on its own
\* What a client starts a request with: nothing, "GET ", "get ", "GET",
\* "POST ", "pOsT ", "PUT ".
Heads ==
    { <<>>, <<71, 69, 84, 32>>, <<103, 101, 116, 32>>, <<71, 69, 84>>,
      <<80, 79, 83, 84, 32>>, <<112, 79, 115, 84, 32>>, <<80, 85, 84, 32>> }

\* What follows: up to MaxTail bytes out of CR, LF and 'a'.
Tails == UNION {[1..n -> {CR, LF, 97}] : n \in 0..MaxTail}

\* A request that fills the read buffer: data followed by 'a's up to BUFSIZE.
Fill(data) == data \o [k \in 1..(BUFSIZE - Len(data)) |-> 97]

\* The results of read(fd, buffer, BUFSIZE) with 1 <= ret <= BUFSIZE.
Requests ==
    {d \in UNION {{h \o t, Fill(h \o t)} : h \in Heads, t \in Tails} : Len(d) >= 1}

FramerInit ==
    /\ NotStarted
    /\ request \in Requests
    /\ framed = NULL

\* web_read frames the request: lines 112-177.
WebRead ==
    /\ framed = NULL
    /\ framed' = Ptr(Frame(request))
    /\ UNCHANGED <<proc, exit_code, handle, webserve, heap, open, caller, count,
                   returned, track, events, progress, request>>

FramerSpec == FramerInit /\ [][WebRead]_vars


\* ------------------------------------------------------------ properties
conversation == webserve.conversation
active_read_fd_set == webserve.active_read_fd_set
active_write_fd_set == webserve.active_write_fd_set
Logged == 1..Len(events)
Is(k, op, fd) == events[k][1] = op /\ events[k][2] = fd
CannedBody == Bytes(RESPONSE_CONTENT, RESPONSE_LENGTH)
Invocations(t) == t.invoked + t.defaults

\* C1: a request with an unrecognized method gets the 403 document and only
\* its connection ends: the process lives on, the termination flag stays
\* false and the listening descriptor stays registered, so later cycles serve.
C1_ForbiddenEndsOnlyConnection ==
    \A k \in Logged :
        (events[k][1] = "forbidden" /\ k > 1 /\ Is(k - 1, "read", events[k][2]))
            => /\ proc = "running"
               /\ webserve.quit = FALSE
               /\ webserve.listenfd \in active_read_fd_set
               /\ events[k][2] \notin active_read_fd_set \cup active_write_fd_set

\* C2: when the registered callback returned false, the response written is
\* the canned default body, whatever the callback left in the conversation.
C2_FalseCallbackGetsDefault ==
    \A k \in Logged :
        (events[k][1] = "write" /\ events[k][4].conv_result = "false")
            => events[k][3] = CannedBody

\* C3: no descriptor is in the awaiting-read set and in the awaiting-write
\* set at once.
C3_SetsDisjoint == active_read_fd_set \cap active_write_fd_set = {}

\* C3 witness: a descriptor that awaited its write was written and closed,
\* and the accept of the same cycle handed its number out again: it now
\* awaits its read.
C3_Witness ==
    /\ proc = "running"
    /\ \E j, k \in Logged : \E fd \in Descriptors :
          /\ j < k /\ Is(j, "write", fd) /\ Is(k, "accept", fd)
          /\ fd \in active_read_fd_set
          /\ fd \notin active_write_fd_set

\* C4: while the server runs, slot d of the table holds a Conversation
\* exactly when the data descriptor d is in one of the two sets.
C4_SlotIffRegistered ==
    proc = "running" =>
        \A d \in Descriptors \ {webserve.listenfd} :
            (conversation[d] # NULL)
                <=> (d \in active_read_fd_set \cup active_write_fd_set)

\* The blocks the host's handle leads to: the server state, and the records
\* in the table with their buffers.
Reachable ==
    {<<0, "webserve">>}
        \cup UNION {Owned(Deref(conversation[d]))
                    : d \in {x \in Descriptors : conversation[x] # NULL}}

\* C5: while the server runs, the live allocations are exactly the server
\* state and the records and buffers reachable from the table, one block
\* each; so the record and buffers stored earlier for a descriptor are freed
\* once a new Conversation is stored in its slot.
C5_NoLeak == proc = "running" => heap = SetToBag(Reachable)

\* C5 witness: descriptor 0 was written and closed, its record lingered, and
\* the accept of the same cycle stored the next Conversation in slot 0.
C5_Witness ==
    /\ proc = "running"
    /\ \E j, k \in Logged : j < k /\ Is(j, "write", 0) /\ Is(k, "accept", 0)
    /\ conversation[0] # NULL
    /\ Deref(conversation[0]).hit = webserve.hit

\* C6: while the server runs, the listening descriptor is in the
\* awaiting-read set and not in the awaiting-write set.
C6_ListenerAwaitsRead ==
    proc = "running" =>
        /\ webserve.listenfd \in active_read_fd_set
        /\ webserve.listenfd \notin active_write_fd_set

\* C6 witness: after accepts, a write and both setters the listener is still
\* registered for reading.
C6_Witness ==
    /\ proc = "running"
    /\ webserve.hit = MaxHit
    /\ webserve.timeout_usec # 1000000
    /\ webserve.conversation_callback = user_callback_ptr
    /\ \E k \in Logged : events[k][1] = "write"
    /\ webserve.listenfd \in active_read_fd_set

\* The last cycle wrote the response of fd after one callback run and closed
\* fd (it is open again only if the accept of that cycle handed it out anew).
Written(fd) ==
    \E k \in Logged :
        /\ Is(k, "write", fd)
        /\ Invocations(events[k][4]) = 1
        /\ fd \in open => \E j \in Logged : j > k /\ Is(j, "accept", fd)

\* C7: when poll_thrice, entered with no connection in flight, is about to
\* return without termination and its client was ready in every cycle, it
\* has run three cycles and the last one wrote the response of the accepted
\* descriptor and closed it.
C7_ThriceServesReadyClient ==
    ( /\ proc = "running"
      /\ caller = "poll_thrice"
      /\ ~ThriceContinue(count, webserve.quit)
      /\ webserve.quit # TRUE
      /\ progress[1] = "ready" )
        => progress[2] = 3 /\ Written(progress[3])

C7_Witness ==
    /\ proc = "running"
    /\ caller = "poll_thrice"
    /\ count = 3
    /\ webserve.quit # TRUE
    /\ progress[1] = "ready"
    /\ progress[2] = 3
    /\ progress[3] \notin open

\* C8: a callback runs exactly once on the Conversation of every request
\* that was framed, right after its read and before the descriptor is put in
\* the awaiting-write set; it runs on no other Conversation.
C8_CallbackOncePerFramedRequest ==
    /\ \A d \in Descriptors :
          /\ Invocations(track[d]) <= 1
          /\ Invocations(track[d]) = 1 =>
                /\ conversation[d] # NULL
                /\ Deref(conversation[d]).type \in {REQUEST_GET, REQUEST_POST}
                /\ d \in active_write_fd_set
          /\ d \in active_write_fd_set => Invocations(track[d]) = 1
    /\ \A k \in Logged :
          /\ events[k][1] = "read" /\ k < Len(events) =>
                \/ Is(k + 1, "forbidden", events[k][2])
                \/ /\ Is(k + 1, "callback", events[k][2])
                   /\ k + 2 <= Len(events)
                   /\ Is(k + 2, "FD_SET_write", events[k][2])
          /\ events[k][1] = "read" /\ k = Len(events) => FALSE
          /\ events[k][1] = "callback" => k > 1 /\ Is(k - 1, "read", events[k][2])
          /\ events[k][1] = "FD_SET_write" =>
                k > 1 /\ Is(k - 1, "callback", events[k][2])
          /\ events[k][1] = "write" => Invocations(events[k][4]) = 1

\* C8 witness: the host's callback ran once, returned false, and the
\* descriptor awaits its write.
C8_Witness ==
    \E d \in Descriptors :
        /\ d \in active_write_fd_set
        /\ track[d].invoked = 1
        /\ track[d].conv_result = "false"
        /\ \E k \in Logged : Is(k, "callback", d)

\* A step that executes poll_once, called by the host or by a poll helper.
CycleStep == PollOnce \/ PollThriceLoop \/ PollForeverLoop

\* C9: a poll cycle whose select() fails sets the termination flag, services
\* nothing and leaves sets, table and hit counter alone; poll_once then
\* returns true, and a poll call returns true only with the flag set.
C9_SelectFailureEndsCycle ==
    [][ /\ (CycleStep /\ events'[1][2] = FALSE) =>
              /\ webserve'.quit = TRUE
              /\ Len(events') = 1
              /\ webserve'.active_read_fd_set = webserve.active_read_fd_set
              /\ webserve'.active_write_fd_set = webserve.active_write_fd_set
              /\ webserve'.conversation = webserve.conversation
              /\ webserve'.hit = webserve.hit
              /\ UNCHANGED <<heap, open, proc>>
              /\ caller = "idle" => returned' = Ptr(TRUE)
        /\ returned' = Ptr(TRUE) => webserve'.quit = TRUE ]_vars

\* C9 witness: select() failed with one connection awaiting its read and
\* another its write, and poll_once returned true.
C9_Witness ==
    /\ proc = "running"
    /\ caller = "idle"
    /\ events = << <<"select", FALSE, {}, {}>> >>
    /\ returned = Ptr(TRUE)
    /\ active_write_fd_set # {}
    /\ active_read_fd_set # {webserve.listenfd}

\* C10: start_server hands out a handle only for a port in 1..60000; for
\* every other port the process exits with code 3 and there is no handle.
C10_PortRange ==
    [][ \A port \in Ports :
            (StartServerWith(port) /\ ~(0 < port /\ port <= 60000)) =>
                proc' = "exited" /\ exit_code' = 3 /\ handle' = NULL ]_vars

\* Where the header of data ends: at the last byte of the first run of at
\* least four CR/LF bytes, or at the end of data when there is no such run.
IsCRLF(c) == c = CR \/ c = LF
RunStarts(data) ==
    {i \in 1..(Len(data) - 3) : \A k \in i..(i + 3) : IsCRLF(data[k])}
Least(S) == CHOOSE x \in S : \A y \in S : x <= y
Greatest(S) == CHOOSE x \in S : \A y \in S : x >= y
HeaderEnd(data) ==
    IF RunStarts(data) = {} THEN Len(data)
    ELSE LET first == Least(RunStarts(data))
         IN  Greatest({e \in (first + 3)..Len(data) :
                          \A k \in first..e : IsCRLF(data[k])})

\* C11: header followed by body is the request as read, the sizes add up to
\* its length, and the header ends with the first run of at least four CR/LF
\* bytes (the whole request is header when there is no such run).
C11_HeaderBodyPartition ==
    framed # NULL =>
        LET f == Deref(framed)
        IN  /\ f.request_header \o f.request_body = request
            /\ f.request_header_size + f.request_body_size = Len(request)
            /\ f.request_header_size = Len(f.request_header)
            /\ f.request_body_size = Len(f.request_body)
            /\ f.request_header = SubSeq(request, 1, HeaderEnd(request))
            /\ f.request_body = SubSeq(request, HeaderEnd(request) + 1, Len(request))

\* C11 holds of every read shorter than the buffer.
C11_ShortReads == Len(request) < BUFSIZE => C11_HeaderBodyPartition

\* A request begins with a method name, letter case aside.
BeginsWith(data, prefix) ==
    /\ Len(data) >= Len(prefix)
    /\ \A k \in 1..Len(prefix) : tolower(data[k]) = tolower(prefix[k])

\* C12: a request of 1..BUFSIZE bytes is a GET when it begins with "GET ",
\* else a POST when it begins with "POST ", else invalid.
C12_MethodByPrefix ==
    framed # NULL =>
        Deref(framed).type =
            IF BeginsWith(request, requests[1]) THEN REQUEST_GET
            ELSE IF BeginsWith(request, requests[2]) THEN REQUEST_POST
            ELSE REQUEST_INVALID

\* C12 holds of every read shorter than the buffer.
C12_ShortReads == Len(request) < BUFSIZE => C12_MethodByPrefix

\* C13: after conversation_clear ran on a descriptor that conversation_new
\* had stored a Conversation for, the slot is empty; a second clear, a clear
\* of an empty slot and a clear of a descriptor outside the table change
\* nothing.
C13_ReleaseEmptiesSlot ==
    proc = "running" =>
        /\ \A k \in Logged :
              ( /\ events[k][1] = "write"
                /\ ~\E j \in Logged : j > k /\ Is(j, "accept", events[k][2]) )
                  => conversation[events[k][2]] = NULL
        /\ \A d \in (-1)..FD_SETSIZE :
              LET released == conversation_clear(World, d)
              IN  /\ conversation_clear(released, d) = released
                  /\ d \notin Descriptors => released = World
                  /\ (d \in Descriptors /\ conversation[d] = NULL) => released = World

\* C14: a call of set_timeout_usec changes the timeout field and a call of
\* set_conv_callback the callback field, and nothing else: sets, table, hit
\* counter, listening descriptor, termination flag, allocations and open
\* descriptors stay as they are.
C14_SettersChangeOneField ==
    [][ /\ SetTimeoutUsec =>
              /\ webserve' = [webserve EXCEPT !.timeout_usec = webserve'.timeout_usec]
              /\ UNCHANGED <<proc, exit_code, handle, heap, open>>
        /\ SetConvCallback =>
              /\ webserve' = [webserve EXCEPT
                                 !.conversation_callback = webserve'.conversation_callback]
              /\ UNCHANGED <<proc, exit_code, handle, heap, open>> ]_vars

\* C14 witness: the host's callback was registered after the default one had
\* answered a request that still awaits its write, another connection awaits
\* its read, and the timeout is no longer the initial one.
C14_Witness ==
    /\ proc = "running"
    /\ webserve.timeout_usec = 250000
    /\ webserve.conversation_callback = user_callback_ptr
    /\ \E d \in active_write_fd_set :
          /\ conversation[d] # NULL
          /\ Deref(conversation[d]).response = Ptr(CannedBody)
    /\ active_read_fd_set # {webserve.listenfd}

\* C15: in one poll cycle a connection is accepted, or read and answered, or
\* written and closed, never two of them: two such events on one descriptor
\* number in a cycle are the write of one connection and the accept of the
\* next.  So the connection a poll_thrice call accepted in its first cycle
\* is still open after one and after two cycles, however ready the client.
C15_OnePhasePerCycle ==
    /\ \A j, k \in Logged :
          ( /\ j < k
            /\ events[j][1] \in {"accept", "read", "write"}
            /\ events[k][1] \in {"accept", "read", "write"}
            /\ events[j][2] = events[k][2] )
              => events[j][1] = "write" /\ events[k][1] = "accept"
    /\ ( /\ proc = "running"
         /\ caller = "poll_thrice"
         /\ progress[1] = "ready"
         /\ progress[2] \in {1, 2} )
           => /\ progress[3] \in open
              /\ conversation[progress[3]] # NULL
              /\ progress[2] = 1 => progress[3] \in active_read_fd_set
              /\ progress[2] = 2 => progress[3] \in active_write_fd_set

\* C15 witness: a descriptor was written and closed, the accept later in the
\* same scan handed its number to the next connection, and that connection
\* has not been read yet.
C15_Witness ==
    /\ proc = "running"
    /\ \E j, k \in Logged : \E fd \in Descriptors :
          /\ j < k /\ Is(j, "write", fd) /\ Is(k, "accept", fd)
          /\ conversation[fd] # NULL
          /\ Deref(conversation[fd]).request_header = NULL
          /\ Deref(conversation[fd]).hit = webserve.hit
          /\ fd \in open

\* C16: a Conversation that awaits its write, and so is released by the next
\* write, has its header, its body and its response populated, whatever the
\* callback did.
C16_AllPhasesBeforeRelease ==
    proc = "running" =>
        \A d \in active_write_fd_set :
            /\ conversation[d] # NULL
            /\ Deref(conversation[d]).request_header # NULL
            /\ Deref(conversation[d]).request_body # NULL
            /\ Deref(conversation[d]).response # NULL

\* C17: finish_server sets the termination flag, closes the listening
\* descriptor and frees the server state, and nothing more: every data
\* descriptor in a set stays open, the table keeps its records and their
\* blocks stay allocated.
C17_FinishAbandonsConversations ==
    [][ FinishServer =>
          /\ webserve' = [webserve EXCEPT !.quit = TRUE]
          /\ open' = open \ {webserve.listenfd}
          /\ heap' = Free(heap, {<<0, "webserve">>})
          /\ \A d \in (active_read_fd_set \cup active_write_fd_set)
                      \ {webserve.listenfd} :
                /\ d \in open'
                /\ conversation[d] # NULL
                /\ \A b \in Owned(Deref(conversation[d])) : BagIn(b, heap') ]_vars

\* C17 witness: the server was finished while one connection awaited its
\* write and another its read; both descriptors are open and the answered
\* request's response is still allocated.
C17_Witness ==
    /\ proc = "finished"
    /\ webserve.listenfd \notin open
    /\ \E d \in active_write_fd_set :
          /\ d \in open
          /\ BagIn(<<Deref(conversation[d]).hit, "response">>, heap)
    /\ \E d \in active_read_fd_set \ {webserve.listenfd} :
          /\ d \in open
          /\ BagIn(<<Deref(conversation[d]).hit, "conversation">>, heap)

\* C18: inside poll_forever a step taken with the flag false is another
\* poll cycle and not a return, a return happens only with the flag true,
\* and once a cycle has left the flag true (select() failed) poll_forever
\* returns.
C18_PollForeverUntilQuit ==
    /\ [][ (proc = "running" /\ caller = "poll_forever") =>
              /\ webserve.quit # TRUE =>
                    caller' = "poll_forever" /\ Len(events') >= 1
                        /\ events'[1][1] = "select"
              /\ caller' = "idle" => webserve.quit = TRUE /\ webserve' = webserve ]_vars
    /\ (proc = "running" /\ caller = "poll_forever" /\ webserve.quit = TRUE)
          ~> (caller = "idle")

\* C18 witness: inside poll_forever, with a connection awaiting its write,
\* select() failed and the cycle left the flag true.
C18_Witness ==
    /\ proc = "running"
    /\ caller = "poll_forever"
    /\ webserve.quit = TRUE
    /\ events = << <<"select", FALSE, {}, {}>> >>
    /\ active_write_fd_set # {}

\* C19: once the termination flag is true it stays true; a poll_once called
\* then returns true and serves nothing, whatever select() reports; and
\* poll_thrice, entered or continued then, runs no cycle and returns true.
C19_QuitIsSticky ==
    [][ (proc = "running" /\ webserve.quit = TRUE) =>
          /\ webserve'.quit = TRUE
          /\ PollOnce =>
                /\ returned' = Ptr(TRUE)
                /\ Len(events') = 1
                /\ webserve' = webserve
                /\ UNCHANGED <<proc, heap, open>>
          /\ caller = "poll_thrice" =>
                /\ caller' = "idle"
                /\ returned' = Ptr(TRUE)
                /\ UNCHANGED <<proc, webserve, heap, open, events>> ]_vars

\* C19 witness: poll_once was called with the flag true; select() reported a
\* readable and a writable descriptor and neither was served.
C19_Witness ==
    /\ proc = "running"
    /\ caller = "idle"
    /\ webserve.quit = TRUE
    /\ returned = Ptr(TRUE)
    /\ Len(events) = 1
    /\ events[1][2] = TRUE
    /\ events[1][3] # {}
    /\ events[1][4] # {}

\* The accepts of a poll cycle, as positions in its log.
AcceptsIn(log) ==
    {k \in 1..Len(log) : log[k][1] = "accept" /\ log[k][2] >= 0}

\* The sequence numbers of the Conversations in a table.
Numbers(table) ==
    {Deref(table[d]).hit : d \in {x \in Descriptors : table[x] # NULL}}

\* C20: the hit counter changes only in a poll cycle, where it grows by one
\* for the accept of the cycle (at most one); the Conversation of that accept
\* carries the new counter value, which is greater than every number in the
\* table before; no two Conversations in the table share a number.
C20_HitNumbersConversations ==
    /\ [](\A d, e \in Descriptors :
            (d # e /\ conversation[d] # NULL /\ conversation[e] # NULL)
                => Deref(conversation[d]).hit # Deref(conversation[e]).hit)
    /\ [][ proc = "running" =>
              /\ webserve'.hit >= webserve.hit
              /\ CycleStep =>
                    /\ webserve'.hit = webserve.hit + Cardinality(AcceptsIn(events'))
                    /\ webserve'.hit <= webserve.hit + 1
                    /\ \A k \in AcceptsIn(events') :
                          /\ conversation'[events'[k][2]] # NULL
                          /\ Deref(conversation'[events'[k][2]]).hit = webserve'.hit
                          /\ \A n \in Numbers(conversation) : n < webserve'.hit
              /\ ~CycleStep => webserve'.hit = webserve.hit
              /\ \A n \in Numbers(conversation') : n >= 1 /\ n <= webserve'.hit ]_vars

\* C20 witness: two connections were accepted, in two cycles, and both
\* Conversations are in the table, numbered 1 and 2.
C20_Witness ==
    /\ proc = "running"
    /\ webserve.hit = 2
    /\ AcceptsIn(events) # {}
    /\ Numbers(conversation) = {1, 2}

====
